---- MODULE Spec2Model ----
(***************************************************************************)
(* Model of llnl/util/cpu.py: the MicroArchitecture value type, the loader *)
(* that fills the module-level registry `targets` from the JSON knowledge  *)
(* source, the raw CPU descriptor collectors and detect_host().            *)
(*                                                                         *)
(* Python objects live in `heap` (a sequence; an object's identity is its  *)
(* index), so that "the same object" and "an equal object" stay distinct.  *)
(***************************************************************************)
EXTENDS Integers, Sequences, FiniteSets, TLC

VARIABLES data, order, idx, stack, heap, targets, pc, machine, call, result

vars == <<data, order, idx, stack, heap, targets, pc, machine, call, result>>

\* Longest `from` list of a record of the knowledge source.
MaxParents == 2
\* Largest number of tokens on a "flags" line of the CPU pseudo-file.
MaxFlagTokens == 2

None == "None"

Range(s) == {s[i] : i \in DOMAIN s}

\* dict.get(key, default)
Get(d, k, default) == IF k \in DOMAIN d THEN d[k] ELSE default

\* Python collections keep their type: set() != [].  The only list the
\* program stores in an entity is the empty one of create_generic_march.
PySet(S) == [type |-> "set", elems |-> S]
PyList(s) == [type |-> "list", elems |-> Range(s)]

(***************************************************************************)
(* The knowledge source (targets.json): record name -> values.  Names are  *)
(* listed so that a record's parents come earlier in TopoNames, which      *)
(* makes every source acyclic with all referenced parents present.         *)
(***************************************************************************)
TopoNames == <<"x86_64", "ppc64le", "haswell", "skylake">>

RecordNames == Range(TopoNames)

FromLists(i) ==
    LET S == {TopoNames[j] : j \in 1..(i - 1)}
        All == UNION {[1..k -> S] : k \in 0..MaxParents}
    IN {s \in All : \A a, b \in DOMAIN s : a # b => s[a] # s[b]}

\* JSON shapes of "from": null, a single name, or a list of names.
FromValue(s) ==
    IF Len(s) = 0 THEN [json |-> "null", items |-> <<>>]
    ELSE IF Len(s) = 1 THEN [json |-> "string", items |-> s]
    ELSE [json |-> "array", items |-> s]

\* The optional keys a record may carry besides "from" and "features".
Profiles ==
    << [features |-> <<>>],
       [vendor |-> "GenuineIntel", features |-> <<"sse4_1">>,
        compilers |-> {<<"gcc", "-march=native">>}],
       [vendor |-> "AuthenticAMD", features |-> <<"sse4_1", "avx">>,
        generation |-> 9] >>

\* Family roots state their vendor explicitly.
Values(s, p) ==
    LET base == [from |-> FromValue(s)] @@ Profiles[p]
    IN IF Len(s) = 0 /\ "vendor" \notin DOMAIN base
       THEN base @@ [vendor |-> "generic"]
       ELSE base

Sources ==
    {[n \in RecordNames |->
        CASE n = TopoNames[1] -> Values(<<>>, 1)
          [] n = TopoNames[2] -> Values(<<>>, 1)
          [] n = TopoNames[3] -> Values(s3, p3)
          [] OTHER -> Values(s4, p4)] :
        s3 \in FromLists(3), s4 \in FromLists(4),
        p3 \in DOMAIN Profiles, p4 \in DOMAIN Profiles}

\* Iteration orders of the loaded dict: as listed, or descendants first.
Reverse(s) == [i \in DOMAIN s |-> s[Len(s) + 1 - i]]

DataOrders == {TopoNames, Reverse(TopoNames)}

(***************************************************************************)
(* MicroArchitecture                                                       *)
(***************************************************************************)

\* Eq with the comparison of the names left out.
RECURSIVE EqIgnoringName(_, _, _)
EqIgnoringName(h, a, b) ==
    /\ h[a].vendor = h[b].vendor
    /\ h[a].features = h[b].features
    /\ Len(h[a].ancestors) = Len(h[b].ancestors)
    /\ \A i \in DOMAIN h[a].ancestors :
          \/ h[a].ancestors[i] = h[b].ancestors[i]
          \/ EqIgnoringName(h, h[a].ancestors[i], h[b].ancestors[i])
    /\ h[a].compilers = h[b].compilers
    /\ h[a].generation = h[b].generation

\* MicroArchitecture.__eq__ on heap objects a and b; list equality and list
\* membership compare elements by identity first, then by __eq__.
RECURSIVE Eq(_, _, _)
Eq(h, a, b) ==
    /\ h[a].name = h[b].name
    /\ h[a].vendor = h[b].vendor
    /\ h[a].features = h[b].features
    /\ Len(h[a].ancestors) = Len(h[b].ancestors)
    /\ \A i \in DOMAIN h[a].ancestors :
          \/ h[a].ancestors[i] = h[b].ancestors[i]
          \/ Eq(h, h[a].ancestors[i], h[b].ancestors[i])
    /\ h[a].compilers = h[b].compilers
    /\ h[a].generation = h[b].generation

\* x in list
InList(h, x, list) == \E i \in DOMAIN list : list[i] = x \/ Eq(h, x, list[i])

\* ExtendAncestors with the "not in self.ancestors" filter left out.
RECURSIVE ExtendAncestorsUnfiltered(_, _, _, _)
ExtendAncestorsUnfiltered(h, ancestors, parents, i) ==
    IF i > Len(parents) THEN ancestors
    ELSE ExtendAncestorsUnfiltered(h, ancestors \o h[parents[i]].ancestors,
                                   parents, i + 1)

\* The loop of __init__: for each parent in order, extend ancestors by the
\* parent's ancestors that are not in ancestors yet.
RECURSIVE ExtendAncestors(_, _, _, _)
ExtendAncestors(h, ancestors, parents, i) ==
    IF i > Len(parents) THEN ancestors
    ELSE ExtendAncestors(
            h,
            ancestors \o SelectSeq(h[parents[i]].ancestors,
                                   LAMBDA a : ~InList(h, a, ancestors)),
            parents, i + 1)

\* MicroArchitecture(name, parents, vendor, features, compilers, generation)
MicroArchitecture(h, name, parents, vendor, features, compilers, generation) ==
    [name |-> name,
     parents |-> parents,
     ancestors |-> ExtendAncestors(h, parents, parents, 1),
     vendor |-> vendor,
     features |-> features,
     compilers |-> compilers,
     generation |-> generation]

create_generic_march(h, name) ==
    MicroArchitecture(h, name, <<>>, "generic", PyList(<<>>), {}, 0)

(***************************************************************************)
(* The registry: an OrderedDict, kept as a sequence of [name, obj] items.  *)
(***************************************************************************)
Keys(t) == {t[i].name : i \in DOMAIN t}

Lookup(t, name) == t[CHOOSE i \in DOMAIN t : t[i].name = name].obj

\* targets[name] = obj: a new key goes last, an existing key keeps its place.
SetItem(t, name, obj) ==
    IF name \in Keys(t)
    THEN [i \in DOMAIN t |-> IF t[i].name = name THEN [name |-> name, obj |-> obj]
                             ELSE t[i]]
    ELSE Append(t, [name |-> name, obj |-> obj])

\* targets.values()
ValuesOf(t) == [i \in DOMAIN t |-> t[i].obj]

(***************************************************************************)
(* _load_targets_from_json                                                 *)
(***************************************************************************)

\* Normalisation of values['from'] at the top of fill_target_from_dict.
ParentNames(values) ==
    LET parents == values["from"]
    IN IF parents.json = "string" THEN <<parents.items[1]>>
       ELSE IF parents.json = "null" THEN <<>>
       ELSE parents.items

\* A call of fill_target_from_dict(name, data, targets): the list of parents
\* to fill is computed once, when the loop over it starts.
Frame(name, t) ==
    [name |-> name,
     pending |-> SelectSeq(ParentNames(data[name]), LAMBDA p : p \notin Keys(t))]

Init ==
    /\ data \in Sources
    /\ order \in DataOrders
    /\ idx = 1
    /\ stack = <<>>
    /\ heap = <<>>
    /\ targets = <<>>
    /\ pc = "load"
    /\ machine = None
    /\ call = [op |-> "none"]
    /\ result = [kind |-> "none", exc |-> None, obj |-> 0, value |-> None]

\* for name in data: if name in targets: continue
LoadSkip ==
    /\ pc = "load" /\ stack = <<>> /\ idx <= Len(order)
    /\ order[idx] \in Keys(targets)
    /\ idx' = idx + 1
    /\ UNCHANGED <<data, order, stack, heap, targets, pc, machine, call, result>>

\* for name in data: fill_target_from_dict(name, data, targets)
LoadCall ==
    /\ pc = "load" /\ stack = <<>> /\ idx <= Len(order)
    /\ order[idx] \notin Keys(targets)
    /\ stack' = <<Frame(order[idx], targets)>>
    /\ idx' = idx + 1
    /\ UNCHANGED <<data, order, heap, targets, pc, machine, call, result>>

\* The recursive call for the next parent that was missing when the loop began.
FillRecurse ==
    /\ pc = "load" /\ stack # <<>>
    /\ LET top == stack[Len(stack)]
       IN /\ top.pending # <<>>
          /\ stack' = Append(
                [stack EXCEPT ![Len(stack)].pending = Tail(top.pending)],
                Frame(Head(top.pending), targets))
    /\ UNCHANGED <<data, order, idx, heap, targets, pc, machine, call, result>>

\* The rest of fill_target_from_dict: build the entity and store it.
FillConstruct ==
    /\ pc = "load" /\ stack # <<>>
    /\ LET top == stack[Len(stack)]
           values == data[top.name]
           names == ParentNames(values)
           parents == [i \in DOMAIN names |-> Lookup(targets, names[i])]
           vendor == Get(values, "vendor", None)
       IN /\ top.pending = <<>>
          /\ IF vendor = None /\ parents = <<>>
             THEN \* parents[0] raises IndexError
                  /\ pc' = "failed"
                  /\ result' = [kind |-> "raise", exc |-> "IndexError", obj |-> 0,
                                value |-> None]
                  /\ UNCHANGED <<heap, targets, stack>>
             ELSE /\ heap' = Append(heap, MicroArchitecture(
                        heap, top.name, parents,
                        IF vendor = None THEN heap[parents[1]].vendor ELSE vendor,
                        PySet(Range(values["features"])),
                        Get(values, "compilers", {}),
                        Get(values, "generation", 0)))
                  /\ targets' = SetItem(targets, top.name, Len(heap) + 1)
                  /\ stack' = SubSeq(stack, 1, Len(stack) - 1)
                  /\ UNCHANGED <<pc, result>>
    /\ UNCHANGED <<data, order, idx, machine, call>>

Machines == {"x86_64", "ppc64le", "ppc64", "aarch64"}

\* targets.setdefault(host_platform, create_generic_march(host_platform)):
\* the generic entity is built either way and stored only for a new key.
LoadFinish ==
    /\ pc = "load" /\ stack = <<>> /\ idx > Len(order)
    /\ \E m \in Machines :
          /\ machine' = m
          /\ heap' = Append(heap, create_generic_march(heap, m))
          /\ targets' = IF m \in Keys(targets) THEN targets
                        ELSE SetItem(targets, m, Len(heap) + 1)
    /\ pc' = "ready"
    /\ UNCHANGED <<data, order, idx, stack, call, result>>

Load == LoadSkip \/ LoadCall \/ FillRecurse \/ FillConstruct \/ LoadFinish

(***************************************************************************)
(* Raw descriptor collection.  A string of the descriptor is kept as its   *)
(* whitespace-separated tokens together with its type, str or bytes: a     *)
(* bytes value never equals a str value.                                   *)
(***************************************************************************)
Str(tokens) == [type |-> "str", tokens |-> tokens]
Bytes(tokens) == [type |-> "bytes", tokens |-> tokens]

EmptyDict == [k \in {} |-> Str(<<>>)]

\* The local `cpuinfo` of detect_host: None or a dict.
NoCpuinfo == [isNone |-> TRUE, dict |-> EmptyDict]
Cpuinfo(d) == [isNone |-> FALSE, dict |-> d]

\* A line of /proc/cpuinfo after partition(':') and strip().
Line(key, tokens) == [blank |-> FALSE, key |-> key, value |-> Str(tokens)]
BlankLine == [blank |-> TRUE, key |-> "", value |-> Str(<<>>)]

\* The loop over the lines: blank lines are skipped, a later key overwrites.
RECURSIVE ReadLines(_, _)
ReadLines(text, cpuinfo) ==
    IF text = <<>> THEN cpuinfo
    ELSE LET line == Head(text)
         IN ReadLines(Tail(text),
                      IF line.blank THEN cpuinfo
                      ELSE (line.key :> line.value) @@ cpuinfo)

_create_dict_from_proc(env) ==
    IF env.ioerror THEN NoCpuinfo
    ELSE Cpuinfo(ReadLines(env.lines, EmptyDict))

\* bytes.lower() / str.lower() on the tokens sysctl prints.
LowerToken(t) ==
    CASE t = "SSE4.1" -> "sse4.1"
      [] t = "SSE4.2" -> "sse4.2"
      [] t = "AVX1.0" -> "avx1.0"
      [] t = "AVX2" -> "avx2"
      [] OTHER -> t

Lower(v) == [v EXCEPT !.tokens = [i \in DOMAIN v.tokens |-> LowerToken(v.tokens[i])]]

\* 'needle' in flags, for the needles of the spelling fix-ups: a substring
\* test, which on these vocabularies is a test for the token.
Contains(v, needle) == needle \in Range(v.tokens)

\* flags += ' ' + more
Concat(v, tokens) == [v EXCEPT !.tokens = v.tokens \o tokens]

\* check_output(args): subprocess.run(...).stdout is bytes on Python 3,
\* subprocess.check_output(...) a str on Python 2.
check_output(env, tokens) == IF env.python >= 3 THEN Bytes(tokens) ELSE Str(tokens)

\* _create_dict_from_sysctl: env.failAt = k makes the k-th sysctl call raise;
\* on Python 3 the str + bytes concatenation of the third statement raises
\* TypeError.  Any exception leaves the dict as filled so far.
_create_dict_from_sysctl(env) ==
    LET d1 == "vendor_id" :> check_output(env, env.sysctl.vendor)
        d2 == ("flags" :> Lower(check_output(env, env.sysctl.features))) @@ d1
        d3 == ("flags" :> Concat(d2["flags"], Lower(check_output(env, env.sysctl.leaf7)).tokens))
              @@ d1
        d4 == ("model" :> check_output(env, env.sysctl.model)) @@ d3
        d5 == ("model name" :> check_output(env, env.sysctl.brand)) @@ d4
        f1 == IF Contains(d5["flags"], "sse4.1")
              THEN Concat(d5["flags"], <<"sse4_1">>) ELSE d5["flags"]
        f2 == IF Contains(f1, "sse4.2") THEN Concat(f1, <<"sse4_2">>) ELSE f1
        f3 == IF Contains(f2, "avx1.0") THEN Concat(f2, <<"avx">>) ELSE f2
    IN Cpuinfo(
         IF env.failAt = 1 THEN EmptyDict
         ELSE IF env.failAt = 2 THEN d1
         ELSE IF env.failAt = 3 \/ env.python >= 3 THEN d2
         ELSE IF env.failAt = 4 THEN d3
         ELSE IF env.failAt = 5 THEN d4
         ELSE ("flags" :> f3) @@ d5)

\* The keys of dict_factory in _create_cpuinfo_dict.
dict_factory == {"Linux", "Darwin"}

_create_cpuinfo_dict(env) ==
    IF env.system = "Linux" THEN _create_dict_from_proc(env)
    ELSE _create_dict_from_sysctl(env)

(***************************************************************************)
(* Host environments                                                       *)
(***************************************************************************)
Vendors == {"GenuineIntel", "AuthenticAMD"}

FlagVocabulary == <<"sse4_1", "avx", "avx2", "fma">>

VendorLines == {<<>>} \cup {<<Line("vendor_id", <<v>>)>> : v \in Vendors}

FlagsLines ==
    {<<>>} \cup {<<Line("flags", SubSeq(FlagVocabulary, 1, k))>> : k \in 0..MaxFlagTokens}

CpuLines ==
    { <<Line("cpu", <<"POWER9", "(raw),", "altivec", "supported">>)>>,
      <<Line("cpu", <<"Cell", "Broadband", "Engine">>)>> }

ProcFiles ==
    {v \o f \o <<BlankLine>> : v \in VendorLines, f \in FlagsLines}
    \cup {c \o <<BlankLine>> \o c : c \in CpuLines}

NoSysctl == [vendor |-> <<>>, features |-> <<>>, leaf7 |-> <<>>, model |-> <<>>,
             brand |-> <<>>]

SysctlOutput ==
    [vendor |-> <<"GenuineIntel">>, features |-> <<"SSE4.1", "AVX1.0">>,
     leaf7 |-> <<"AVX2">>, model |-> <<"94">>, brand |-> <<"Intel(R)", "Core(TM)">>]

\* Number of sysctl calls of _create_dict_from_sysctl.
NumSysctlCalls == 5

\* The interpreter matters to the collectors only on Darwin.
HostEnvs ==
    {[system |-> "Linux", python |-> 3, ioerror |-> TRUE, lines |-> <<>>,
      sysctl |-> NoSysctl, failAt |-> 0]}
    \cup {[system |-> "Linux", python |-> 3, ioerror |-> FALSE, lines |-> f,
           sysctl |-> NoSysctl, failAt |-> 0] : f \in ProcFiles}
    \cup {[system |-> "Darwin", python |-> py, ioerror |-> FALSE, lines |-> <<>>,
           sysctl |-> SysctlOutput, failAt |-> k] :
              py \in {2, 3}, k \in 0..NumSysctlCalls}
    \cup {[system |-> "Windows", python |-> 3, ioerror |-> FALSE, lines |-> <<>>,
           sysctl |-> NoSysctl, failAt |-> 0]}

(***************************************************************************)
(* Family testers and detect_host                                          *)
(***************************************************************************)
\* How a call ends: an exception, a returned object, or a returned bool.
Raise(exc) == [kind |-> "raise", exc |-> exc, obj |-> 0, value |-> None]
Return(obj) == [kind |-> "return", exc |-> None, obj |-> obj, value |-> None]
ReturnBool(b) ==
    [kind |-> "return", exc |-> None, obj |-> 0,
     value |-> IF b THEN "True" ELSE "False"]

\* set(cpuinfo.get('flags', '').split())
FlagSet(cpuinfo) ==
    LET flags == Get(cpuinfo.dict, "flags", Str(<<>>))
    IN {[type |-> flags.type, token |-> flags.tokens[i]] : i \in DOMAIN flags.tokens}

\* The entity's own feature names are str.
FeatureSet(features) == {[type |-> "str", token |-> f] : f \in features.elems}

\* can_use of _get_x86_target_tester: TRUE, FALSE, or "AttributeError" when
\* features is a list, which has no issubset.
x86_can_use(h, t, basename, cpuinfo, target) ==
    LET vendor == Get(cpuinfo.dict, "vendor_id", Str(<<"generic">>))
        features == FlagSet(cpuinfo)
        base == Lookup(t, basename)
    IN IF ~(Eq(h, target, base) \/ InList(h, base, h[target].ancestors)) THEN "False"
       ELSE IF ~(Str(<<h[target].vendor>>) = vendor \/ h[target].vendor = "generic")
            THEN "False"
       ELSE IF h[target].features.type # "set" THEN "AttributeError"
       ELSE IF FeatureSet(h[target].features) \subseteq features THEN "True"
       ELSE "False"

\* re.search(r'POWER(\d+)', text): the digits of the first match, -1 for None.
PowerDigits(token) ==
    CASE token = "POWER9" -> 9
      [] token = "POWER8" -> 8
      [] token = "POWER8E" -> 8
      [] OTHER -> -1

re_search_power(text) ==
    LET hits == {i \in DOMAIN text.tokens : PowerDigits(text.tokens[i]) >= 0}
    IN IF hits = {} THEN -1
       ELSE PowerDigits(text.tokens[CHOOSE i \in hits : \A j \in hits : i <= j])

\* The attributes of what re.search returns: a match object, or None.
MatchAttributes(m) ==
    IF m >= 0 THEN {"group", "groups", "groupdict", "start", "end", "span", "expand"}
    ELSE {}

\* can_use of _get_power_target_tester
power_can_use(h, t, basename, generation, target) ==
    LET base == Lookup(t, basename)
    IN IF (Eq(h, target, base) \/ InList(h, base, h[target].ancestors))
          /\ h[target].generation <= generation
       THEN "True" ELSE "False"

\* Select without reverse=True: the usable entity of the shortest ancestry.
SelectShortest(h, t, verdict) ==
    LET values == [i \in DOMAIN t |-> t[i].obj]
        usable == SelectSeq(values, LAMBDA o : verdict[o] = "True")
    IN IF \E i \in DOMAIN values : verdict[values[i]] = "AttributeError"
       THEN Raise("AttributeError")
       ELSE IF usable = <<>> THEN Raise("IndexError")
       ELSE Return(usable[CHOOSE i \in DOMAIN usable :
               /\ \A j \in DOMAIN usable :
                     Len(h[usable[j]].ancestors) >= Len(h[usable[i]].ancestors)
               /\ \A j \in 1..(i - 1) :
                     Len(h[usable[j]].ancestors) > Len(h[usable[i]].ancestors)])

\* sorted(list(filter(tester, targets.values())),
\*        key=lambda t: len(t.ancestors), reverse=True)[0]
\* The sort is stable, so of the longest the first in registry order wins.
Select(h, t, verdict) ==
    LET values == ValuesOf(t)
        usable == SelectSeq(values, LAMBDA o : verdict[o] = "True")
    IN IF \E i \in DOMAIN values : verdict[values[i]] = "AttributeError"
       THEN Raise("AttributeError")
       ELSE IF usable = <<>> THEN Raise("IndexError")
       ELSE Return(usable[CHOOSE i \in DOMAIN usable :
               /\ \A j \in DOMAIN usable :
                     Len(h[usable[j]].ancestors) <= Len(h[usable[i]].ancestors)
               /\ \A j \in 1..(i - 1) :
                     Len(h[usable[j]].ancestors) < Len(h[usable[i]].ancestors)])

\* detect_host(): the outcome and the heap after the call.
detect_host(h, t, basename, env) ==
    IF env.system \notin dict_factory
    THEN \* dict_factory[platform.system()] raises KeyError
         [result |-> Raise("KeyError"), heap |-> h]
    ELSE LET cpuinfo == _create_cpuinfo_dict(env)
             objs == Range(ValuesOf(t))
         IN IF basename = "x86_64"
            THEN IF cpuinfo.isNone
                 THEN [result |-> Raise("AttributeError"), heap |-> h]
                 ELSE [result |-> Select(h, t,
                          [o \in objs |-> x86_can_use(h, t, basename, cpuinfo, o)]),
                       heap |-> h]
            ELSE IF basename \in {"ppc64", "ppc64le"}
            THEN IF cpuinfo.isNone
                 THEN [result |-> Raise("AttributeError"), heap |-> h]
                 ELSE LET m == re_search_power(Get(cpuinfo.dict, "cpu", Str(<<>>)))
                      IN IF "matches" \notin MatchAttributes(m)
                         THEN [result |-> Raise("AttributeError"), heap |-> h]
                         ELSE [result |-> Select(h, t,
                                  [o \in objs |-> power_can_use(h, t, basename, m, o)]),
                               heap |-> h]
            ELSE [result |-> Return(Len(h) + 1),
                  heap |-> Append(h, create_generic_march(h, basename))]

DetectHost ==
    /\ pc = "ready"
    /\ \E env \in HostEnvs :
          LET r == detect_host(heap, targets, machine, env)
          IN /\ call' = [op |-> "detect_host", env |-> env,
                         cpuinfo |-> IF env.system \in dict_factory
                                     THEN _create_cpuinfo_dict(env) ELSE NoCpuinfo]
             /\ result' = r.result
             /\ heap' = r.heap
    /\ pc' = "done"
    /\ UNCHANGED <<data, order, idx, stack, targets, machine>>

Next == Load \/ DetectHost

Spec == Init /\ [][Next]_vars

(***************************************************************************)
(* Operations on entities                                                  *)
(***************************************************************************)

\* architecture_family with the test of the filter inverted.
architecture_family_inverted(h, e) ==
    LET roots == SelectSeq(<<e>> \o h[e].ancestors, LAMBDA x : h[x].ancestors # <<>>)
    IN IF Len(roots) # 1 THEN Raise("AssertionError")
       ELSE Return(roots[Len(roots)])

\* architecture_family without its assertion.
architecture_family_unchecked(h, e) ==
    LET roots == SelectSeq(<<e>> \o h[e].ancestors, LAMBDA x : h[x].ancestors = <<>>)
    IN IF roots = <<>> THEN Raise("IndexError")
       ELSE Return(roots[Len(roots)])

\* The architecture_family property.
architecture_family(h, e) ==
    LET roots == SelectSeq(<<e>> \o h[e].ancestors, LAMBDA x : h[x].ancestors = <<>>)
    IN IF Len(roots) # 1 THEN Raise("AssertionError")
       ELSE Return(roots[Len(roots)])

\* The comparison methods class MicroArchitecture defines.
ComparisonMethods == {"__eq__"}

MethodOf(op) ==
    CASE op = "<" -> "__lt__"
      [] op = "<=" -> "__le__"
      [] op = ">" -> "__gt__"
      [] op = ">=" -> "__ge__"

\* MicroArchitecture._ensure_strictly_orderable(self, other)
_ensure_strictly_orderable(h, self, other) ==
    IF ~(InList(h, self, h[other].ancestors) \/ InList(h, other, h[self].ancestors))
    THEN Raise("TypeError")
    ELSE Return(0)

\* `left op right` for an ordering operator.  The class defines no method
\* for it, so Python 3 raises TypeError and Python 2 orders the two objects
\* by their addresses (leftLower: the left one has the lower address).
compare(left, op, right, python, leftLower) ==
    IF MethodOf(op) \notin ComparisonMethods
    THEN IF python >= 3 THEN Raise("TypeError")
         ELSE IF left = right THEN ReturnBool(op \in {"<=", ">="})
         ELSE ReturnBool((op \in {"<", "<="}) = leftLower)
    ELSE Raise("NotImplemented")

Operators == {"<", "<=", ">", ">="}

\* target `op` other_target on two registry entries
Compare ==
    /\ pc = "ready"
    /\ \E a \in Keys(targets), b \in Keys(targets), op \in Operators,
          python \in {2, 3}, leftLower \in BOOLEAN :
          /\ call' = [op |-> op, a |-> a, b |-> b]
          /\ result' = compare(Lookup(targets, a), op, Lookup(targets, b),
                               python, leftLower)
    /\ pc' = "done"
    /\ UNCHANGED <<data, order, idx, stack, heap, targets, machine>>

\* target == other_target on two registry entries
Equals ==
    /\ pc = "ready"
    /\ \E a \in Keys(targets), b \in Keys(targets) :
          /\ call' = [op |-> "==", a |-> a, b |-> b]
          /\ result' = ReturnBool(Eq(heap, Lookup(targets, a), Lookup(targets, b)))
    /\ pc' = "done"
    /\ UNCHANGED <<data, order, idx, stack, heap, targets, machine>>

\* eval(repr(e)): __repr__ prints the six constructor arguments, the parents
\* by their own repr, so evaluating it builds every parent anew, then e.
\* Gives the heap after the evaluation; the new entity is its last object.
RECURSIVE EvalRepr(_, _)
RECURSIVE EvalReprList(_, _, _, _)
EvalRepr(h, e) ==
    LET built == EvalReprList(h, h[e].parents, 1, <<>>)
    IN Append(built.heap,
              MicroArchitecture(built.heap, h[e].name, built.objs, h[e].vendor,
                                h[e].features, h[e].compilers, h[e].generation))

EvalReprList(h, list, i, objs) ==
    IF i > Len(list) THEN [heap |-> h, objs |-> objs]
    ELSE LET h2 == EvalRepr(h, list[i])
         IN EvalReprList(h2, list, i + 1, Append(objs, Len(h2)))

\* eval(repr(target)) == target, for a registry entry
Reconstruct ==
    /\ pc = "ready"
    /\ \E a \in Keys(targets) :
          /\ call' = [op |-> "reconstruct", a |-> a, b |-> a]
          /\ heap' = EvalRepr(heap, Lookup(targets, a))
          /\ result' = [ReturnBool(Eq(heap', Len(heap'), Lookup(targets, a)))
                          EXCEPT !.obj = Len(heap')]
    /\ pc' = "done"
    /\ UNCHANGED <<data, order, idx, stack, targets, machine>>

\* e.architecture_family for an entity e: call.a is the entity's name and
\* call.b says whether it is the registry's entry of that name.
ArchitectureFamily ==
    /\ pc = "ready"
    /\ \E e \in DOMAIN heap :
          /\ call' = [op |-> "architecture_family", a |-> heap[e].name,
                      b |-> IF heap[e].name \in Keys(targets)
                               /\ Lookup(targets, heap[e].name) = e
                            THEN "registry" ELSE "other",
                      obj |-> e]
          /\ result' = architecture_family(heap, e)
    /\ pc' = "done"
    /\ UNCHANGED <<data, order, idx, stack, heap, targets, machine>>

\* The knowledge sources of the entity checks: iterated descendants first.
InitEntity == Init /\ order = Reverse(TopoNames)

NextEntity == Load \/ Compare \/ Equals \/ Reconstruct \/ ArchitectureFamily

SpecEntity == InitEntity /\ [][NextEntity]_vars

(***************************************************************************)
(* Properties                                                              *)
(***************************************************************************)
RegistryObjs == {targets[i].obj : i \in DOMAIN targets}

NameSeq(ids) == [i \in DOMAIN ids |-> heap[ids[i]].name]

AncestorNames(o) == Range(NameSeq(heap[o].ancestors))

Detecting == call.op = "detect_host"

\* An entity as create_generic_march(name) builds it, not taken from the registry.
IsFreshGeneric(o, name) ==
    /\ o \notin RegistryObjs
    /\ heap[o].name = name
    /\ heap[o].parents = <<>> /\ heap[o].ancestors = <<>>
    /\ heap[o].vendor = "generic"
    /\ heap[o].features.elems = {}

\* The x86 predicate on registry entry o, against the collected descriptor.
X86Usable(o) ==
    LET d == call.cpuinfo.dict
    IN /\ heap[o].name = "x86_64" \/ "x86_64" \in AncestorNames(o)
       /\ \/ "vendor_id" \in DOMAIN d /\ d["vendor_id"] = Str(<<heap[o].vendor>>)
          \/ heap[o].vendor = "generic"
       /\ heap[o].features.elems \subseteq
             (IF "flags" \in DOMAIN d /\ d["flags"].type = "str"
              THEN Range(d["flags"].tokens) ELSE {})

\* C1: whenever detect_host() returns on an x86_64 host, it returns a registry
\* entry that satisfies the x86 predicate (x86_64 itself or a descendant of it,
\* vendor equal to the detected vendor_id or "generic", features a subset of
\* the detected flag tokens), and no registry entry satisfying the predicate
\* has a longer ancestors sequence.
C1_DetectHostX86 ==
    (Detecting /\ machine = "x86_64" /\ result.kind = "return") =>
        /\ result.obj \in RegistryObjs
        /\ X86Usable(result.obj)
        /\ \A o \in RegistryObjs :
              X86Usable(o) =>
                 Len(heap[o].ancestors) <= Len(heap[result.obj].ancestors)

\* An x86_64 host where a descendant of x86_64 is returned while an entry of
\* longer ancestry is turned down by the predicate.
C1_Witness ==
    /\ Detecting /\ machine = "x86_64" /\ result.kind = "return"
    /\ heap[result.obj].ancestors # <<>>
    /\ \E o \in RegistryObjs :
          /\ ~X86Usable(o)
          /\ Len(heap[o].ancestors) > Len(heap[result.obj].ancestors)

\* C2: for every machine identifier without a family tester, every operating
\* system and every outcome of the raw-descriptor collection, detect_host()
\* returns a freshly constructed generic entity named after the identifier.
C2_UnknownMachineGetsGeneric ==
    (Detecting /\ machine \notin {"x86_64", "ppc64", "ppc64le"}) =>
        /\ result.kind = "return"
        /\ IsFreshGeneric(result.obj, machine)

\* C3: when reading the CPU pseudo-file fails with an I/O error,
\* _create_dict_from_proc returns None without raising, and detect_host falls
\* back to a generic entity instead of failing.
C3_IOErrorFallsBackToGeneric ==
    (Detecting /\ call.env.system = "Linux" /\ call.env.ioerror) =>
        /\ call.cpuinfo.isNone
        /\ result.kind = "return"
        /\ IsFreshGeneric(result.obj, machine)

\* The POWER predicate on registry entry o for a detected generation.
PowerUsable(o, generation) ==
    /\ heap[o].name = machine \/ machine \in AncestorNames(o)
    /\ heap[o].generation <= generation

DetectedGenerations ==
    LET d == call.cpuinfo.dict
    IN IF "cpu" \in DOMAIN d
       THEN {PowerDigits(tok) : tok \in Range(d["cpu"].tokens)} \ {-1}
       ELSE {}

\* C4: on a ppc64 or ppc64le host whose descriptor's 'cpu' field contains
\* POWER<digits>, the tester is built with that generation and detect_host
\* selects among the entries that are the machine's entry or descend from it
\* and whose generation is at most the detected one; when the pattern is
\* absent, building the tester fails and the error leaves detect_host.
C4_PowerTester ==
    (Detecting /\ machine \in {"ppc64", "ppc64le"}
       /\ call.env.system \in dict_factory /\ ~call.cpuinfo.isNone) =>
        IF DetectedGenerations # {}
        THEN /\ result.kind = "return"
             /\ result.obj \in RegistryObjs
             /\ \E g \in DetectedGenerations : PowerUsable(result.obj, g)
        ELSE result.kind = "raise"

\* The names reachable from entity o by following parents.
RECURSIVE ReachableNames(_)
ReachableNames(o) ==
    UNION {{heap[p].name} \cup ReachableNames(p) : p \in Range(heap[o].parents)}

\* The parents' names followed, parent by parent, by the names of that
\* parent's ancestors that are not present yet.
RECURSIVE Linearized(_, _, _)
Linearized(names, parents, i) ==
    IF i > Len(parents) THEN names
    ELSE Linearized(
            names \o SelectSeq(NameSeq(heap[parents[i]].ancestors),
                               LAMBDA n : n \notin Range(names)),
            parents, i + 1)

\* C5: for every entity built from distinct parents, ancestors is the parents
\* in their order followed, for each parent in order, by those of its ancestors
\* not already present; it has no duplicates and holds exactly the entities
\* reachable by following parents.
C5_AncestorsLinearization ==
    \A o \in DOMAIN heap :
        LET anc == NameSeq(heap[o].ancestors)
        IN /\ anc = Linearized(NameSeq(heap[o].parents), heap[o].parents, 1)
           /\ \A i, j \in DOMAIN anc : i # j => anc[i] # anc[j]
           /\ Range(anc) = ReachableNames(o)
           /\ heap[o].name \notin Range(anc)

\* An entity with two parents that share an ancestor, below its parents.
C5_Witness ==
    \E o \in DOMAIN heap :
        /\ Len(heap[o].ancestors) > Len(heap[o].parents)
        /\ \E i, j \in DOMAIN heap[o].parents :
              /\ i < j
              /\ AncestorNames(heap[o].parents[j]) \cap
                    ({heap[heap[o].parents[i]].name}
                        \cup AncestorNames(heap[o].parents[i])) # {}

Comparing == call.op \in Operators

\* C6: for entities a, b with a in b.ancestors, a <= b, a < b, b >= a and
\* b > a are true; for unrelated a, b any ordering comparison raises the
\* "no ordering relationship" TypeError.
C6_PartialOrder ==
    Comparing =>
        LET left == Lookup(targets, call.a)
            right == Lookup(targets, call.b)
            below == call.a \in AncestorNames(right)
            above == call.b \in AncestorNames(left)
        IN /\ (below /\ call.op \in {"<", "<="}) => result.value = "True"
           /\ (above /\ call.op \in {">", ">="}) => result.value = "True"
           /\ (~below /\ ~above /\ call.a # call.b) =>
                 (result.kind = "raise" /\ result.exc = "TypeError")

\* C7: rebuilding a registry entity from its full field set (as its repr
\* prints it) gives a value equal to it,
\* and two registry entries are equal exactly when stored under the same name.
C7_EqualityByValue ==
    /\ call.op = "reconstruct" => result.value = "True"
    /\ call.op = "==" => (result.value = "True" <=> call.a = call.b)

\* Two registry entries that differ in nothing but their name compare unequal.
C7_Witness ==
    /\ call.op = "==" /\ call.a # call.b /\ result.value = "False"
    /\ LET a == heap[Lookup(targets, call.a)]
           b == heap[Lookup(targets, call.b)]
       IN /\ a.vendor = b.vendor /\ a.features = b.features
          /\ a.ancestors = b.ancestors /\ a.ancestors # <<>>
          /\ a.compilers = b.compilers /\ a.generation = b.generation

FamilyOfLoaded ==
    call.op = "architecture_family" /\ call.b = "registry" /\ result.kind = "return"

\* C8 as stated: every loaded entity e is a member of
\* e.architecture_family.ancestors + {e.architecture_family}, and
\* e.architecture_family has no ancestors.
C8_EntityAmongFamilyAncestors ==
    FamilyOfLoaded =>
        /\ call.a \in AncestorNames(result.obj) \cup {heap[result.obj].name}
        /\ heap[result.obj].ancestors = <<>>

\* C8 amended: for every loaded entity e whose architecture_family returns,
\* e.architecture_family is a member of e.ancestors + {e} and has no ancestors.
C8_FamilyAmongOwnAncestors ==
    FamilyOfLoaded =>
        /\ result.obj \in Range(heap[call.obj].ancestors) \cup {call.obj}
        /\ heap[result.obj].ancestors = <<>>

\* The family of a loaded entity with several ancestors is another entity.
C8_Witness ==
    /\ FamilyOfLoaded
    /\ Len(heap[call.obj].ancestors) >= 2
    /\ result.obj # call.obj

\* The entities without ancestors among e and e's ancestors.
RootsOf(e) == {x \in {e} \cup Range(heap[e].ancestors) : heap[x].ancestors = <<>>}

\* C9: architecture_family fails with an assertion exactly when e and its
\* ancestors hold more than one entity without ancestors; otherwise it returns
\* the single such entity, and at least one always exists.
C9_FamilyAssertsOnSeveralRoots ==
    call.op = "architecture_family" =>
        LET roots == RootsOf(call.obj)
        IN /\ roots # {}
           /\ result.kind = "raise" <=> Cardinality(roots) > 1
           /\ result.kind = "raise" => result.exc = "AssertionError"
           /\ result.kind = "return" => roots = {result.obj}

\* An entity that descends from two roots: the assertion fails.
C9_Witness ==
    /\ call.op = "architecture_family"
    /\ result.kind = "raise" /\ result.exc = "AssertionError"
    /\ Cardinality(RootsOf(call.obj)) = 2

LoopDone == pc = "load" /\ stack = <<>> /\ idx > Len(order)

\* C10: when the loop over the records ends, every record name has been
\* constructed exactly once, every entity was constructed after its parents,
\* and the registry has an entry for every record.
C10_EachRecordBuiltOnce ==
    LoopDone =>
        /\ \A n \in RecordNames :
              Cardinality({o \in DOMAIN heap : heap[o].name = n}) = 1
        /\ \A o \in DOMAIN heap : \A p \in Range(heap[o].parents) : p < o
        /\ Keys(targets) = RecordNames
====
